---- MODULE Spec2Model ----
(***************************************************************************)
(* State-machine model of the project-fire-backend request handlers:       *)
(*   users controller, Mongoose revision  (src/unnamed/part_000)           *)
(*   users controller, Prisma revision    (src/unnamed/part_001)           *)
(*   employees controller                 (src/src/controllers/            *)
(*                                         employeesController.ts)         *)
(* Every handler is an async function; each action below is the code that  *)
(* runs from one await of a persistence call to the next, so concurrent    *)
(* requests interleave exactly at the awaits.                              *)
(***************************************************************************)
EXTENDS Integers, Sequences, FiniteSets, TLC

\* ---- bounds ------------------------------------------------------------
MaxReqs  == 2        \* requests in one behaviour, all of which may overlap
MaxClock == 2        \* clock ticks in one behaviour
MaxPage  == 3        \* largest page number a listing request asks for
MaxTake  == 2        \* largest page size a listing request asks for

\* two seeded records per collection and at most one more per request
MaxIds   == MaxReqs + 2

\* request p is the p-th request to arrive
Procs    == 1..MaxReqs
UserIds  == 1..MaxIds
EmpIds   == 1..MaxIds
Projects == {1, 2}

Undef  == "undefined"
NoNum  == -1         \* undefined, where the defined values are numbers
NoDoc  == [absent |-> TRUE]
Roles  == {"Admin", "Guest"}
Emails == {"a@x.io", "b@x.io", "c@x.io"}

VARIABLES users, employees, members, tokens, clock, req,
          nextUser, nextEmp, nextTok, actor, goneEmps, resets

vars == <<users, employees, members, tokens, clock, req,
          nextUser, nextEmp, nextTok, actor, goneEmps, resets>>

\* ---- pure helpers --------------------------------------------------------

\* bcrypt.hash: a digest of the plain text, never the plain text itself
Hash(pw) == [digest |-> pw]

\* createHttpError / the error sink: anything that is not an HttpError is 500
Internal == 500

EmpExists(e)  == e \in EmpIds /\ employees[e] # NoDoc

\* UserModel.findOne({ email }) / prisma.user.findUnique({ where: { email } })
FindByEmail(e) == {u \in UserIds : users[u] # NoDoc /\ users[u].email = e}

\* the e-mail pattern of updateUser
PatternTest(e) == e \in Emails

Idle == [op |-> "none", pc |-> "idle", caller |-> 0, callerRole |-> "none",
         target |-> 0, email |-> Undef, password |-> Undef, role |-> Undef,
         doc |-> NoDoc, employee |-> 0, projects |-> <<>>, status |-> 0,
         token |-> <<>>, tokenObj |-> NoDoc, stale |-> FALSE,
         query |-> NoDoc, res |-> NoDoc, isEmployed |-> Undef,
         self |-> FALSE, sawAdmin |-> FALSE, removed |-> FALSE, held |-> FALSE,
         madeEmp |-> FALSE, madeUser |-> FALSE, userFailed |-> FALSE,
         wrote |-> FALSE]

CanStart(p) ==
  /\ req[p].pc = "idle"
  /\ \A q \in Procs : q < p => req[q].pc # "idle"

Set(p, r) == req' = [req EXCEPT ![p] = r]

\* the response is sent: the handler's locals are gone, what stays is the
\* response status and the record of what the request did
Done(r, st) ==
  [Idle EXCEPT !.op = r.op, !.pc = "done", !.status = st,
               !.employee = r.employee, !.self = r.self, !.stale = r.stale,
               !.res = r.res,
               !.sawAdmin = r.sawAdmin, !.removed = r.removed,
               !.held = r.held, !.madeEmp = r.madeEmp,
               !.madeUser = r.madeUser, !.userFailed = r.userFailed,
               !.wrote = r.wrote]

StoreFrame == UNCHANGED <<users, employees, members, tokens, nextUser,
                          nextEmp, nextTok, goneEmps, resets>>

\* ---- initial store ------------------------------------------------------
\* A populated database: an Admin and a Guest, each linked to an Employee,
\* both Employees on project 1 and the Guest's Employee on project 2.
InitUsers ==
  [u \in UserIds |->
     IF u = 1 THEN [email |-> "a@x.io", role |-> "Admin",
                    password |-> Hash("p0"), employee |-> 1]
     ELSE IF u = 2 THEN [email |-> "b@x.io", role |-> "Guest",
                         password |-> Hash("p0"), employee |-> 2]
     ELSE NoDoc]

InitEmployees ==
  [e \in EmpIds |->
     IF e \in {1, 2} THEN [isEmployed |-> (e = 1), isEmployedDate |-> 0]
     ELSE NoDoc]

Init ==
  /\ users = InitUsers
  /\ employees = InitEmployees
  /\ members = [pr \in Projects |-> IF pr = 1 THEN {1, 2} ELSE {2}]
  /\ tokens = {}
  /\ clock = 0
  /\ req = [p \in Procs |-> Idle]
  /\ nextUser = 3
  /\ nextEmp = 3
  /\ nextTok = 1
  /\ actor = "none"
  /\ goneEmps = {}
  /\ resets = <<>>

\* ---- registerUser (Mongoose revision) --------------------------------------

\* lines 75-96: destructure the body, required-field check, findOne by email,
\* hash the password
Register(p) ==
  /\ CanStart(p)
  /\ \E em \in {Undef, "b@x.io", "c@x.io"}, pw \in {Undef, "p1"},
        ro \in {Undef, "Admin", "Guest", "Bogus"} :
       LET r == [Idle EXCEPT !.op = "registerUser", !.email = em,
                             !.password = pw, !.role = ro,
                             !.held = (em # Undef /\ pw # Undef
                                       /\ FindByEmail(em) # {})]
       IN  IF em = Undef \/ pw = Undef THEN Set(p, Done(r, 400))
           ELSE IF FindByEmail(em) # {} THEN Set(p, Done(r, 409))
           ELSE Set(p, [r EXCEPT !.pc = "reg_employee"])
  /\ actor' = "anonymous"
  /\ UNCHANGED clock
  /\ StoreFrame

\* lines 98-104: EmployeeModel.create
RegisterCreateEmployee(p) ==
  /\ req[p].pc = "reg_employee"
  /\ nextEmp <= MaxIds
  /\ employees' = [employees EXCEPT ![nextEmp] =
                     [isEmployed |-> TRUE, isEmployedDate |-> clock]]
  /\ nextEmp' = nextEmp + 1
  /\ Set(p, [req[p] EXCEPT !.pc = "reg_user", !.employee = nextEmp,
                           !.madeEmp = TRUE])
  /\ actor' = "anonymous"
  /\ UNCHANGED <<users, members, tokens, clock, nextUser, nextTok,
                 goneEmps, resets>>

\* The User schema (models/user): email carries a unique index and role is
\* restricted to the UserRole enumeration, absent role taking the default.
UserCreateOk(em, ro) == FindByEmail(em) = {} /\ ro \in Roles \cup {Undef}

DefaultRole(ro) == IF ro = Undef THEN "Guest" ELSE ro

RegisterCatch_NoCleanup(r, emps) == emps

\* lines 142-147: the catch block: delete the Employee when the User was not
\* created, then forward the error
RegisterCatch(r, emps) ==
  IF r.employee # 0 /\ ~r.madeUser
    THEN [emps EXCEPT ![r.employee] = NoDoc]
    ELSE emps

\* lines 106-141 and, when UserModel.create throws, lines 142-147
RegisterCreateUser(p) ==
  /\ req[p].pc = "reg_user"
  /\ nextUser <= MaxIds
  /\ LET r == req[p] IN
       IF UserCreateOk(r.email, r.role)
         THEN /\ users' = [users EXCEPT ![nextUser] =
                             [email |-> r.email, role |-> DefaultRole(r.role),
                              password |-> Hash(r.password),
                              employee |-> r.employee]]
              /\ nextUser' = nextUser + 1
              /\ Set(p, Done([r EXCEPT !.madeUser = TRUE, !.target = nextUser],
                             201))
              /\ UNCHANGED employees
         ELSE /\ employees' = RegisterCatch(r, employees)
              /\ Set(p, Done([r EXCEPT !.userFailed = TRUE], Internal))
              /\ UNCHANGED <<users, nextUser>>
  /\ actor' = "anonymous"
  /\ UNCHANGED <<members, tokens, clock, nextEmp, nextTok, goneEmps,
                 resets>>

\* ---- callers ----------------------------------------------------------------
\* req.user as the authentication middleware resolves it: a stored User's id
\* and role at the time the request arrives
Callers == {u \in UserIds : users[u] # NoDoc}

\* ---- updateUser (Prisma revision) ---------------------------------------------

\* line 49: only the caller themselves or an Admin may touch the user
SelfOrAdmin(callerRole, caller, userId) ==
  ~(callerRole # "Admin" /\ caller # userId)

\* line 58 (updateUser) and line 128 (deleteUser): an Admin target is
\* protected from every caller except that same Admin
AdminGuard(user, userId, caller) == user.role = "Admin" /\ userId # caller

\* lines 63-71: input validation
InvalidFields(em, pw, ro) ==
  \/ (em # Undef /\ ~PatternTest(em))
  \/ (pw # Undef /\ pw = "")
  \/ (ro # Undef /\ ro # "Admin" /\ ro # "Guest")

\* lines 47-71: authorization, findUnique by id, validation
UpdateUser(p) ==
  /\ CanStart(p)
  /\ \E c \in Callers, t \in UserIds,
        em \in {Undef, "b@x.io", "c@x.io", "bad"}, pw \in {Undef, "p1"},
        ro \in {Undef, "Admin", "Guest", "Bogus"} :
       LET r == [Idle EXCEPT !.op = "updateUser", !.caller = c,
                             !.callerRole = users[c].role, !.target = t,
                             !.email = em, !.password = pw, !.role = ro,
                             !.doc = users[t]]
       IN  /\ actor' = users[c].role
           /\ IF ~SelfOrAdmin(users[c].role, c, t) THEN Set(p, Done(r, 403))
              ELSE IF users[t] = NoDoc THEN Set(p, Done(r, 404))
              ELSE IF AdminGuard(users[t], t, c) THEN Set(p, Done(r, 403))
              ELSE IF InvalidFields(em, pw, ro) THEN Set(p, Done(r, 400))
              ELSE IF em # Undef THEN Set(p, [r EXCEPT !.pc = "upd_email"])
              ELSE Set(p, [r EXCEPT !.pc = "upd_write"])
  /\ UNCHANGED clock
  /\ StoreFrame

\* the email is held by a user other than userId
HeldByOther(em, userId) == \E u \in UserIds : u # userId /\ u \in FindByEmail(em)

EmailTaken_SelfOnly(em, userId) == userId \in FindByEmail(em)

\* line 79: existingUser && existingUser.id !== userId
EmailTaken(em, userId) == \E u \in FindByEmail(em) : u # userId

\* lines 73-80: findUnique by email, 409 when another user holds it
UpdateUserCheckEmail(p) ==
  /\ req[p].pc = "upd_email"
  /\ LET r == [req[p] EXCEPT !.held = HeldByOther(req[p].email, req[p].target)]
     IN  IF EmailTaken(r.email, r.target) THEN Set(p, Done(r, 409))
         ELSE Set(p, [r EXCEPT !.pc = "upd_write"])
  /\ actor' = req[p].callerRole
  /\ UNCHANGED clock
  /\ StoreFrame

\* lines 96-103: the data of prisma.user.update; an undefined field is left
\* as stored
UpdateData(old, em, pw, ro) ==
  [old EXCEPT !.email = IF em = Undef THEN @ ELSE em,
              !.password = IF pw = Undef THEN @ ELSE Hash(pw),
              !.role = IF ro = Undef THEN @ ELSE ro]

\* lines 82-106: prisma.user.update; it throws when the record is gone or
\* when the unique index on email (the one findUnique by email relies on)
\* is violated
UpdateUserWrite(p) ==
  /\ req[p].pc = "upd_write"
  /\ LET r == req[p] IN
       IF users[r.target] = NoDoc
            \/ (r.email # Undef /\ HeldByOther(r.email, r.target))
         THEN /\ Set(p, Done(r, Internal))
              /\ UNCHANGED users
         ELSE /\ users' = [users EXCEPT ![r.target] =
                             UpdateData(@, r.email, r.password, r.role)]
              /\ Set(p, Done([r EXCEPT !.wrote = TRUE], 200))
  /\ actor' = req[p].callerRole
  /\ UNCHANGED <<employees, members, tokens, clock, nextUser,
                 nextEmp, nextTok, goneEmps, resets>>

\* ---- deleteUser (Prisma revision) -----------------------------------------------

\* lines 117-129: authorization and findUnique
DeleteUserP(p) ==
  /\ CanStart(p)
  /\ \E c \in Callers, t \in UserIds :
       LET r == [Idle EXCEPT !.op = "deleteUserP", !.caller = c,
                             !.callerRole = users[c].role, !.target = t,
                             !.doc = users[t], !.self = (c = t),
                             !.sawAdmin = (users[t] # NoDoc
                                           /\ users[t].role = "Admin")]
       IN  /\ actor' = users[c].role
           /\ IF ~SelfOrAdmin(users[c].role, c, t) THEN Set(p, Done(r, 403))
              ELSE IF users[t] = NoDoc THEN Set(p, Done(r, 404))
              ELSE IF AdminGuard(users[t], t, c) THEN Set(p, Done(r, 403))
              ELSE Set(p, [r EXCEPT !.pc = "delp_delete"])
  /\ UNCHANGED clock
  /\ StoreFrame

\* lines 131-137: prisma.user.delete, which throws when the record is gone;
\* nothing else is deleted
DeleteUserPDelete(p) ==
  /\ req[p].pc = "delp_delete"
  /\ LET r == req[p] IN
       IF users[r.target] = NoDoc
         THEN /\ Set(p, Done(r, Internal))
              /\ UNCHANGED <<users, goneEmps>>
         ELSE /\ users' = [users EXCEPT ![r.target] = NoDoc]
              /\ goneEmps' = goneEmps \cup {users[r.target].employee}
              /\ Set(p, Done([r EXCEPT !.removed = TRUE], 204))
  /\ actor' = req[p].callerRole
  /\ UNCHANGED <<employees, members, tokens, clock, nextUser,
                 nextEmp, nextTok, resets>>

\* ---- deleteUser (Mongoose revision) ------------------------------------------------

\* lines 288-294: findById, the Admin check, the self-delete check against
\* the user id the request body carries
DeleteUserM(p) ==
  /\ CanStart(p)
  /\ \E c \in UserIds \cup {0}, t \in UserIds :
       LET cr == IF c # 0 /\ users[c] # NoDoc THEN users[c].role
                 ELSE "anonymous"
           r == [Idle EXCEPT !.op = "deleteUserM", !.caller = c,
                             !.callerRole = cr, !.target = t,
                             !.doc = users[t], !.self = (c = t),
                             !.sawAdmin = (users[t] # NoDoc
                                           /\ users[t].role = "Admin")]
       IN  /\ actor' = cr
           /\ IF users[t] = NoDoc THEN Set(p, Done(r, 404))
              ELSE IF users[t].role = "Admin" THEN Set(p, Done(r, 403))
              ELSE IF c = t THEN Set(p, Done(r, 403))
              ELSE Set(p, [r EXCEPT !.pc = "delm_employee"])
  /\ UNCHANGED clock
  /\ StoreFrame

\* lines 296-297: EmployeeModel.findById(user.employee)
DeleteUserMFindEmployee(p) ==
  /\ req[p].pc = "delm_employee"
  /\ LET r == req[p] IN
       IF ~EmpExists(r.doc.employee) THEN Set(p, Done(r, 404))
       ELSE Set(p, [r EXCEPT !.pc = "delm_projects",
                             !.employee = r.doc.employee])
  /\ actor' = req[p].callerRole
  /\ UNCHANGED clock
  /\ StoreFrame

\* the documents ProjectModel.find returns, in id order
RECURSIVE ProjectDocs(_, _)
ProjectDocs(ps, e) ==
  IF ps = {} THEN <<>>
  ELSE LET pr == CHOOSE x \in ps : \A y \in ps : x <= y
       IN  (IF e \in members[pr]
              THEN <<[id |-> pr, employees |-> members[pr]]>>
              ELSE <<>>) \o ProjectDocs(ps \ {pr}, e)

\* line 299: ProjectModel.find({ "employees.employee": employee._id })
DeleteUserMFindProjects(p) ==
  /\ req[p].pc = "delm_projects"
  /\ Set(p, [req[p] EXCEPT !.pc = "delm_loop",
                           !.projects = ProjectDocs(Projects, req[p].employee)])
  /\ actor' = req[p].callerRole
  /\ UNCHANGED clock
  /\ StoreFrame

\* lines 301-303: the membership list without the employee
FilterEmployees(emps, e) == {x \in emps : x # e}

\* lines 300-305: one iteration of the loop: filter the loaded document's
\* membership list and save it
DeleteUserMSaveProject(p) ==
  /\ req[p].pc = "delm_loop"
  /\ req[p].projects # <<>>
  /\ LET r == req[p]
         d == Head(r.projects)
     IN  /\ members' = [members EXCEPT ![d.id] =
                          FilterEmployees(d.employees, r.employee)]
         /\ Set(p, [r EXCEPT !.projects = Tail(r.projects)])
  /\ actor' = req[p].callerRole
  /\ UNCHANGED <<users, employees, tokens, clock, nextUser, nextEmp,
                 nextTok, goneEmps, resets>>

\* line 307: user.deleteOne()
DeleteUserMDeleteUser(p) ==
  /\ req[p].pc = "delm_loop"
  /\ req[p].projects = <<>>
  /\ users' = [users EXCEPT ![req[p].target] = NoDoc]
  /\ goneEmps' = IF users[req[p].target] # NoDoc
                   THEN goneEmps \cup {users[req[p].target].employee}
                   ELSE goneEmps
  /\ Set(p, [req[p] EXCEPT !.pc = "delm_delemp",
                           !.removed = (users[req[p].target] # NoDoc)])
  /\ actor' = req[p].callerRole
  /\ UNCHANGED <<employees, members, tokens, clock, nextUser,
                 nextEmp, nextTok, resets>>

\* lines 308-310: employee.deleteOne() and the 200 response
DeleteUserMDeleteEmployee(p) ==
  /\ req[p].pc = "delm_delemp"
  /\ employees' = [employees EXCEPT ![req[p].employee] = NoDoc]
  /\ Set(p, Done(req[p], 200))
  /\ actor' = req[p].callerRole
  /\ UNCHANGED <<users, members, tokens, clock, nextUser, nextEmp,
                 nextTok, goneEmps, resets>>

\* ---- deleteEmployee (employees controller) -----------------------------------------

\* lines 262-275: Admin only, findUnique
DeleteEmployee(p) ==
  /\ CanStart(p)
  /\ \E c \in Callers, e \in EmpIds :
       LET r == [Idle EXCEPT !.op = "deleteEmployee", !.caller = c,
                             !.callerRole = users[c].role, !.employee = e]
       IN  /\ actor' = users[c].role
           /\ IF users[c].role # "Admin" THEN Set(p, Done(r, 403))
              ELSE IF ~EmpExists(e) THEN Set(p, Done(r, 404))
              ELSE Set(p, [r EXCEPT !.pc = "dele_delete"])
  /\ UNCHANGED clock
  /\ StoreFrame

\* lines 277-283: prisma.employee.delete, the record only
DeleteEmployeeDelete(p) ==
  /\ req[p].pc = "dele_delete"
  /\ IF ~EmpExists(req[p].employee)
       THEN /\ Set(p, Done(req[p], Internal))
            /\ UNCHANGED employees
       ELSE /\ employees' = [employees EXCEPT ![req[p].employee] = NoDoc]
            /\ Set(p, Done([req[p] EXCEPT !.removed = TRUE], 204))
  /\ actor' = req[p].callerRole
  /\ UNCHANGED <<users, members, tokens, clock, nextUser, nextEmp,
                 nextTok, goneEmps, resets>>

\* ---- password reset (Mongoose revision) ---------------------------------------------

\* line 206: the token lifetime, 60 * 60 * 1000 ms, in clock units of one hour
ExpireLength == 1

\* jwt.sign({ userId }, secret, { expiresIn }): the string is determined by
\* the subject and the issue time
JwtSign(u, now) == <<u, now>>

Live(t) == clock < t.expirationTime

\* TokenModel.findOne(filter): the first matching document in insertion order
FindOneToken(matching) ==
  IF matching = {} THEN NoDoc
  ELSE CHOOSE t \in matching : \A o \in matching : t.id <= o.id

\* a reset was requested for the Guest before the behaviour starts
SeedToken == [id |-> 1, user |-> 2, token |-> JwtSign(2, 0),
              expirationTime |-> ExpireLength]

InitReset ==
  /\ users = InitUsers
  /\ employees = InitEmployees
  /\ members = [pr \in Projects |-> IF pr = 1 THEN {1, 2} ELSE {2}]
  /\ tokens \in {{}, {SeedToken}}
  /\ nextTok = IF tokens = {} THEN 1 ELSE 2
  /\ clock = 0
  /\ req = [p \in Procs |-> Idle]
  /\ nextUser = 3
  /\ nextEmp = 3
  /\ actor = "none"
  /\ goneEmps = {}
  /\ resets = <<>>

\* time passes
Tick ==
  /\ clock < MaxClock
  /\ clock' = clock + 1
  /\ UNCHANGED <<users, employees, members, tokens, req, nextUser,
                 nextEmp, nextTok, actor, goneEmps, resets>>

\* lines 198-202: the email check and UserModel.findOne
SendResetPasswordEmail(p) ==
  /\ CanStart(p)
  /\ \E em \in {Undef, "b@x.io", "c@x.io"} :
       LET r == [Idle EXCEPT !.op = "sendResetPasswordEmail", !.email = em,
                             !.held = (FindByEmail(em) # {})]
       IN  IF em = Undef THEN Set(p, Done(r, 400))
           ELSE IF FindByEmail(em) = {} THEN Set(p, Done(r, 404))
           ELSE Set(p, [r EXCEPT !.pc = "send_token",
                                 !.target = CHOOSE u \in FindByEmail(em) : TRUE])
  /\ actor' = "anonymous"
  /\ UNCHANGED clock
  /\ StoreFrame

\* lines 204-205 and, when a Token record exists, lines 217-240: the record
\* is used as found, the mail goes out and the response is 200
SendResetFindToken(p) ==
  /\ req[p].pc = "send_token"
  /\ LET r == req[p]
         tokenObj == FindOneToken({t \in tokens : t.user = r.target})
     IN  IF tokenObj = NoDoc THEN Set(p, [r EXCEPT !.pc = "send_create"])
         ELSE Set(p, Done([r EXCEPT !.stale = ~Live(tokenObj)], 200))
  /\ actor' = "anonymous"
  /\ UNCHANGED clock
  /\ StoreFrame

\* lines 206-240: TokenModel.create, the mail and the 200 response
SendResetCreateToken(p) ==
  /\ req[p].pc = "send_create"
  /\ nextTok <= MaxIds
  /\ tokens' = tokens \cup
       {[id |-> nextTok, user |-> req[p].target,
         token |-> JwtSign(req[p].target, clock),
         expirationTime |-> clock + ExpireLength]}
  /\ nextTok' = nextTok + 1
  /\ Set(p, Done(req[p], 200))
  /\ actor' = "anonymous"
  /\ UNCHANGED <<users, employees, members, clock, nextUser, nextEmp,
                 goneEmps, resets>>

\* the token strings a client can present: any issued one, or a made-up one
TokenStrings == {JwtSign(u, c) : u \in {2}, c \in 0..MaxClock} \cup {<<0, 0>>}

\* lines 253-258: UserModel.findById
ResetPassword(p) ==
  /\ CanStart(p)
  /\ \E u \in {2, 3}, tk \in TokenStrings, pw \in {Undef, "p2"} :
       LET r == [Idle EXCEPT !.op = "resetPassword", !.target = u,
                             !.token = tk, !.password = pw]
       IN  IF users[u] = NoDoc THEN Set(p, Done(r, 400))
           ELSE Set(p, [r EXCEPT !.pc = "reset_token"])
  /\ actor' = "anonymous"
  /\ UNCHANGED clock
  /\ StoreFrame

\* lines 260-269: TokenModel.findOne({ user, token }), the password check
ResetFindToken(p) ==
  /\ req[p].pc = "reset_token"
  /\ LET r == req[p]
         tokenObj == FindOneToken({t \in tokens : t.user = r.target
                                                 /\ t.token = r.token})
     IN  IF tokenObj = NoDoc THEN Set(p, Done(r, 400))
         ELSE IF r.password = Undef THEN Set(p, Done(r, 400))
         ELSE Set(p, [r EXCEPT !.pc = "reset_save", !.tokenObj = tokenObj])
  /\ actor' = "anonymous"
  /\ UNCHANGED clock
  /\ StoreFrame

\* lines 270-272: user.password = hashedPassword; user.save()
ResetSave(p) ==
  /\ req[p].pc = "reset_save"
  /\ users' = [users EXCEPT ![req[p].target].password = Hash(req[p].password)]
  /\ resets' = Append(resets, <<req[p].target, req[p].token>>)
  /\ Set(p, [req[p] EXCEPT !.pc = "reset_delete"])
  /\ actor' = "anonymous"
  /\ UNCHANGED <<employees, members, tokens, clock, nextUser,
                 nextEmp, nextTok, goneEmps>>

\* lines 273-275: tokenObj.deleteOne() and the success response
ResetDeleteToken(p) ==
  /\ req[p].pc = "reset_delete"
  /\ tokens' = {t \in tokens : t.id # req[p].tokenObj.id}
  /\ Set(p, Done(req[p], 200))
  /\ actor' = "anonymous"
  /\ UNCHANGED <<users, employees, members, clock, nextUser, nextEmp,
                 nextTok, goneEmps, resets>>

NextReset ==
  \/ Tick
  \/ \E p \in Procs :
       \/ SendResetPasswordEmail(p)
       \/ SendResetFindToken(p)
       \/ SendResetCreateToken(p)
       \/ ResetPassword(p)
       \/ ResetFindToken(p)
       \/ ResetSave(p)
       \/ ResetDeleteToken(p)

SpecReset == InitReset /\ [][NextReset]_vars

\* ---- getEmployees (employees controller) ----------------------------------------------

\* line 72: JSON.parse of the isEmployed query string
JsonParse(str) == str = "true"

\* lines 38-73: the where clause; the search term is empty and only the
\* employment-status filter is supplied
Where(isEmployed) ==
  {e \in EmpIds : employees[e] # NoDoc
                  /\ (isEmployed = Undef
                      \/ employees[e].isEmployed = JsonParse(isEmployed))}

\* the matching rows in the store's natural (id) order
RECURSIVE Ordered(_)
Ordered(es) ==
  IF es = {} THEN <<>>
  ELSE LET e == CHOOSE x \in es : \A y \in es : x <= y
       IN  <<e>> \o Ordered(es \ {e})

Min(a, b) == IF a < b THEN a ELSE b

\* prisma.employee.findMany({ where, skip, take }): undefined skip is no
\* offset, undefined take is no limit
FindMany(rows, skip, take) ==
  LET from == IF skip = NoNum THEN 0 ELSE skip
      rest == SubSeq(rows, from + 1, Len(rows))
  IN  IF take = NoNum THEN rest ELSE SubSeq(rest, 1, Min(take, Len(rest)))

\* Math.ceil(total / take) for take >= 1
Ceil(total, take) == (total + take - 1) \div take

\* line 30
Skip(page, take) ==
  IF page # NoNum /\ take # NoNum THEN (page - 1) * take ELSE 0

SkipArg_Inclusive(skip, count) == IF skip <= count THEN skip ELSE NoNum

\* line 80
SkipArg(skip, count) == IF skip < count THEN skip ELSE NoNum

\* lines 97-106
PageInfo(page, take, count, rows) ==
  LET total == IF Len(rows) > 0 THEN count ELSE 0
      lastPage == IF take # NoNum THEN Ceil(total, take)
                  ELSE IF total > 0 THEN 1 ELSE 0
      currentPage == IF page # NoNum
                       THEN (IF page > lastPage THEN 1 ELSE page)
                       ELSE IF total > 0 THEN 1 ELSE 0
      perPage == IF take # NoNum THEN take ELSE total
  IN  [total |-> total, currentPage |-> currentPage, lastPage |-> lastPage,
       perPage |-> perPage]

\* lines 18-75: the query parameters, skip, prisma.employee.count
GetEmployees(p) ==
  /\ CanStart(p)
  /\ \E page \in {NoNum} \cup 1..MaxPage, take \in {NoNum} \cup 1..MaxTake,
        f \in {Undef, "true", "false"} :
       Set(p, [Idle EXCEPT !.op = "getEmployees", !.pc = "get_rows",
                           !.query = [page |-> page, take |-> take,
                                      isEmployed |-> f,
                                      skip |-> Skip(page, take),
                                      count |-> Cardinality(Where(f))]])
  /\ actor' = "caller"
  /\ UNCHANGED clock
  /\ StoreFrame

\* lines 77-116: prisma.employee.findMany and the response
GetEmployeesFindMany(p) ==
  /\ req[p].pc = "get_rows"
  /\ LET q == req[p].query
         match == Ordered(Where(q.isEmployed))
         skipArg == SkipArg(q.skip, q.count)
         rows == FindMany(match, skipArg, q.take)
     IN  Set(p, Done([req[p] EXCEPT !.res =
                        [page |-> q.page, take |-> q.take, count |-> q.count,
                         skip |-> skipArg, match |-> match,
                         employees |-> rows,
                         pageInfo |-> PageInfo(q.page, q.take, q.count, rows)]],
                     200))
  /\ actor' = "caller"
  /\ UNCHANGED clock
  /\ StoreFrame

\* ---- createEmployee / updateEmployee (employees controller) ----------------------------

\* lines 159-188: Admin only; prisma.employee.create stamps isEmployedDate
\* with new Date()
CreateEmployee(p) ==
  /\ CanStart(p)
  /\ \E c \in Callers :
       LET r == [Idle EXCEPT !.op = "createEmployee", !.caller = c,
                             !.callerRole = users[c].role]
       IN  /\ actor' = users[c].role
           /\ IF users[c].role # "Admin"
                THEN /\ Set(p, Done(r, 403))
                     /\ UNCHANGED <<employees, nextEmp>>
                ELSE /\ nextEmp <= MaxIds
                     /\ employees' = [employees EXCEPT ![nextEmp] =
                          [isEmployed |-> TRUE, isEmployedDate |-> clock]]
                     /\ nextEmp' = nextEmp + 1
                     /\ Set(p, Done([r EXCEPT !.employee = nextEmp], 201))
  /\ UNCHANGED <<users, members, tokens, clock, nextUser, nextTok, goneEmps,
                 resets>>

\* lines 199-222: Admin only, findUnique
UpdateEmployee(p) ==
  /\ CanStart(p)
  /\ \E c \in Callers, e \in EmpIds, ie \in {Undef, "true", "false"} :
       LET r == [Idle EXCEPT !.op = "updateEmployee", !.caller = c,
                             !.callerRole = users[c].role, !.employee = e,
                             !.isEmployed = ie, !.doc = employees[e]]
       IN  /\ actor' = users[c].role
           /\ IF users[c].role # "Admin" THEN Set(p, Done(r, 403))
              ELSE IF employees[e] = NoDoc THEN Set(p, Done(r, 404))
              ELSE Set(p, [r EXCEPT !.pc = "upde_write"])
  /\ UNCHANGED clock
  /\ StoreFrame

\* the boolean a JSON body carries
BodyBool(v) == v = "true"

IsEmployedDate_WheneverSupplied(isEmployed, employee, now) ==
  IF isEmployed # Undef THEN now ELSE NoNum

\* lines 230-232: a new date only when isEmployed is supplied and differs
\* from the employee that was read
IsEmployedDate(isEmployed, employee, now) ==
  IF isEmployed # Undef /\ BodyBool(isEmployed) # employee.isEmployed
    THEN now ELSE NoNum

\* lines 238-248: the data of prisma.employee.update; an undefined field is
\* left as stored
EmployeeData(old, isEmployed, isEmployedDate) ==
  [isEmployed |-> IF isEmployed = Undef THEN old.isEmployed
                  ELSE BodyBool(isEmployed),
   isEmployedDate |-> IF isEmployedDate = NoNum THEN old.isEmployedDate
                      ELSE isEmployedDate]

\* lines 230-251: the date, then prisma.employee.update, which throws when
\* the record is gone and leaves an undefined field as stored
UpdateEmployeeWrite(p) ==
  /\ req[p].pc = "upde_write"
  /\ LET r == req[p]
         isEmployedDate == IsEmployedDate(r.isEmployed, r.doc, clock)
     IN  IF employees[r.employee] = NoDoc
           THEN /\ Set(p, Done(r, Internal))
                /\ UNCHANGED employees
           ELSE /\ employees' = [employees EXCEPT ![r.employee] =
                      EmployeeData(@, r.isEmployed, isEmployedDate)]
                /\ Set(p, Done([r EXCEPT !.res =
                                  [isEmployed |-> r.isEmployed,
                                   read |-> r.doc.isEmployed,
                                   before |-> employees[r.employee],
                                   now |-> clock]], 200))
  /\ actor' = req[p].callerRole
  /\ UNCHANGED <<users, members, tokens, clock, nextUser, nextEmp,
                 nextTok, goneEmps, resets>>

\* listing requests while employees are created and deleted
NextListing ==
  \E p \in Procs :
    \/ GetEmployees(p)
    \/ GetEmployeesFindMany(p)
    \/ CreateEmployee(p)
    \/ DeleteEmployee(p)
    \/ DeleteEmployeeDelete(p)

SpecListing == Init /\ [][NextListing]_vars

\* employees are created and updated while time passes
NextEmployees ==
  \/ Tick
  \/ \E p \in Procs :
       \/ CreateEmployee(p)
       \/ UpdateEmployee(p)
       \/ UpdateEmployeeWrite(p)

SpecEmployees == Init /\ [][NextEmployees]_vars

NextUsers ==
  \E p \in Procs :
    \/ Register(p)
    \/ RegisterCreateEmployee(p)
    \/ RegisterCreateUser(p)
    \/ UpdateUser(p)
    \/ UpdateUserCheckEmail(p)
    \/ UpdateUserWrite(p)

SpecUsers == Init /\ [][NextUsers]_vars

NextDelete ==
  \E p \in Procs :
    \/ DeleteUserP(p)
    \/ DeleteUserPDelete(p)
    \/ DeleteUserM(p)
    \/ DeleteUserMFindEmployee(p)
    \/ DeleteUserMFindProjects(p)
    \/ DeleteUserMSaveProject(p)
    \/ DeleteUserMDeleteUser(p)
    \/ DeleteUserMDeleteEmployee(p)
    \/ DeleteEmployee(p)
    \/ DeleteEmployeeDelete(p)

SpecDelete == Init /\ [][NextDelete]_vars


\* ======================= properties =======================================

Finished(p, op) == req[p].op = op /\ req[p].pc = "done"

\* C1: a deleteUser request whose target exists and is an Admin ends with 403
\* and has not removed the user, whoever the caller is
C1_AdminNeverDeleted ==
  \A p \in Procs :
    ((Finished(p, "deleteUserP") \/ Finished(p, "deleteUserM"))
       /\ req[p].sawAdmin)
      => (req[p].status = 403 /\ ~req[p].removed)

\* C2: a user becomes an Admin, or stops being one, only in a step of a
\* request whose caller is an Admin
IsAdmin(us, u) == us[u] # NoDoc /\ us[u].role = "Admin"

C2_RoleGated ==
  [][\A u \in UserIds :
       ((IsAdmin(users', u) /\ ~IsAdmin(users, u))
          \/ (IsAdmin(users, u) /\ users'[u] # NoDoc /\ ~IsAdmin(users', u)))
         => actor' = "Admin"]_vars

\* C3: no (user id, token) pair overwrites the password more than once
C3_TokenConsumedOnce ==
  \A i, j \in DOMAIN resets : i # j => resets[i] # resets[j]

\* C4: when a registration has created its Employee and the User creation
\* failed, that Employee is gone once the error has been forwarded, and no
\* stored Employee is without a User unless its registration is still about
\* to create the User
C4_NoOrphanEmployee ==
  /\ \A p \in Procs :
       (Finished(p, "registerUser") /\ req[p].userFailed)
         => (req[p].status = Internal /\ ~EmpExists(req[p].employee))
  /\ \A e \in EmpIds :
       EmpExists(e)
         => \/ \E u \in UserIds : users[u] # NoDoc /\ users[u].employee = e
            \/ \E p \in Procs : req[p].pc = "reg_user" /\ req[p].employee = e

C4_Witness ==
  \E p \in Procs :
    /\ Finished(p, "registerUser")
    /\ req[p].madeEmp /\ req[p].userFailed
    /\ req[p].status = Internal
    /\ req[p].employee \in EmpIds
    /\ ~EmpExists(req[p].employee)

\* C5: no project membership refers to a missing Employee and no Employee of
\* a deleted User is still stored
C5_NoDangling ==
  /\ \A pr \in Projects : \A e \in members[pr] : EmpExists(e)
  /\ \A e \in goneEmps : ~EmpExists(e)

\* C6: every user has at most one live reset token, and a reset request
\* never mails a token that has expired
C6_OneLiveToken ==
  /\ \A u \in UserIds :
       Cardinality({t \in tokens : t.user = u /\ Live(t)}) <= 1
  /\ \A p \in Procs :
       (Finished(p, "sendResetPasswordEmail") /\ req[p].status = 200)
         => ~req[p].stale

\* C7: no two users hold the same email; a registration that carries its
\* required fields and whose email lookup finds a user ends with 409 having
\* created nothing; an update whose email lookup finds another user ends with
\* 409 having written nothing
C7_EmailUnique ==
  /\ \A u, v \in UserIds :
       (u # v /\ users[u] # NoDoc /\ users[v] # NoDoc)
         => users[u].email # users[v].email
  /\ \A p \in Procs :
       (Finished(p, "registerUser") /\ req[p].held)
         => (req[p].status = 409 /\ ~req[p].madeEmp /\ ~req[p].madeUser)
  /\ \A p \in Procs :
       (Finished(p, "updateUser") /\ req[p].held)
         => (req[p].status = 409 /\ ~req[p].wrote)

C7_Witness ==
  /\ \E p \in Procs :
       Finished(p, "updateUser") /\ req[p].held /\ req[p].status = 409
  /\ \E p \in Procs :
       Finished(p, "registerUser") /\ req[p].held /\ req[p].status = 409

\* C8: a listing whose page lies beyond the last page of the counted set
\* applies no offset, returns the rows of page 1 and reports currentPage 1
BeyondLastPage(r) ==
  r.page # NoNum /\ r.take # NoNum /\ r.page > Ceil(r.count, r.take)

C8_BeyondLastPage ==
  \A p \in Procs :
    (Finished(p, "getEmployees") /\ BeyondLastPage(req[p].res))
      => LET r == req[p].res IN
           /\ r.skip = NoNum
           /\ r.employees = SubSeq(r.match, 1, Min(r.take, Len(r.match)))
           /\ r.pageInfo.currentPage = 1

C8_Witness ==
  \E p \in Procs :
    /\ Finished(p, "getEmployees")
    /\ BeyondLastPage(req[p].res)
    /\ req[p].res.count > req[p].res.take
    /\ Len(req[p].res.employees) = req[p].res.take
    /\ req[p].res.pageInfo.currentPage = 1

\* C9: two reset requests that carry an email get the same response status
\* whether or not the email belongs to a user
C9_GenericResponse ==
  \A p, q \in Procs :
    (/\ Finished(p, "sendResetPasswordEmail")
     /\ Finished(q, "sendResetPasswordEmail")
     /\ req[p].status # 400 /\ req[q].status # 400
     /\ req[p].held /\ ~req[q].held)
      => req[p].status = req[q].status

\* C10: the write of updateEmployee sets isEmployedDate to the current time
\* when isEmployed is supplied and differs from the value the request read,
\* and leaves isEmployedDate as stored otherwise
C10_DateFrame ==
  [][\A p \in Procs :
       (req[p].pc = "upde_write" /\ req'[p].pc = "done"
          /\ req'[p].status = 200)
         => LET e == req[p].employee
                supplied == req[p].isEmployed
            IN  IF supplied # Undef
                     /\ BodyBool(supplied) # req[p].doc.isEmployed
                  THEN employees'[e].isEmployedDate = clock
                  ELSE employees'[e].isEmployedDate
                         = employees[e].isEmployedDate]_vars

C10_Witness ==
  \E p \in Procs :
    /\ Finished(p, "updateEmployee")
    /\ req[p].status = 200
    /\ req[p].res.isEmployed = "true"
    /\ req[p].res.read = FALSE
    /\ req[p].res.before.isEmployedDate < req[p].res.now
    /\ employees[req[p].employee] # NoDoc
    /\ employees[req[p].employee].isEmployedDate = req[p].res.now

\* C11: for a listing with page >= 1 and take >= 1 the offset in effect is
\* (page-1)*take exactly when currentPage is the requested page and is 0
\* exactly when currentPage is 1, and when total > 0 then
\* 1 <= currentPage <= lastPage = ceil(total / take), also when the matching
\* set changed between the count and the row query
Offset(r) == IF r.skip = NoNum THEN 0 ELSE r.skip

C11_PageMetadata ==
  \A p \in Procs :
    (Finished(p, "getEmployees")
       /\ req[p].res.page # NoNum /\ req[p].res.take # NoNum)
      => LET r == req[p].res
             info == r.pageInfo
         IN  /\ (Offset(r) = (r.page - 1) * r.take) <=> (info.currentPage = r.page)
             /\ (Offset(r) = 0) <=> (info.currentPage = 1)
             /\ info.total > 0
                  => /\ 1 <= info.currentPage
                     /\ info.currentPage <= info.lastPage
                     /\ info.lastPage = Ceil(info.total, r.take)

====
